---- MODULE Spec2Model ----
(***************************************************************************)
(* A model of the Grosh-backed shopping list component                     *)
(* (custom_components/shopping_list): the Local Item Map of ShoppingData,  *)
(* the identity resolver and reconciliation pass of GroshData, and the     *)
(* remote client GroshApi as far as the list operations call it.           *)
(*                                                                         *)
(* Python strings are sequences of one-character strings, so that the      *)
(* display-name split and join are computed as the code computes them.     *)
(* A Python dict is an insertion-ordered sequence of [key, item] pairs.    *)
(* The optional `amount` field of an item is never read by the list        *)
(* operations and is left out of the records.                              *)
(***************************************************************************)
EXTENDS Integers, Sequences, FiniteSets, TLC

VARIABLES
    map_items,      \* ShoppingData.map_items: dict local id -> ShoppingItem
    items,          \* ShoppingData.items: list of to_ha() records
    purchase_list,  \* GroshData.purchase_list
    recent_list,    \* GroshData.recent_list
    catalog,        \* GroshData.catalog: dict name -> provider name
    persisted,      \* contents of the .shopping_list.json blob
    remote,         \* what the provider returns for the active list
    phase,          \* "setup" until async_setup_entry has run, then "ready" or "failed"
    calls,          \* HTTP requests issued by the operation that ran last
    api,            \* GroshApi: GroshListID, selected_list
    last,           \* the operation that ran last, its input and its outcome
    changes,        \* how often the provider's list has changed so far
    probe           \* inputs and results of the display-name round trip

vars == <<map_items, items, purchase_list, recent_list, catalog, persisted,
          remote, phase, calls, api, last, changes, probe>>

----------------------------------------------------------------------------
(* Bounds of the model. *)

\* longest remote pull (pending and bought together) while the list
\* operations run
MaxRemote == 1
\* longest remote pull of the reconciliation specification
MaxPull == 2
\* longest persisted blob read at start-up
MaxBlob == 1
\* most records of the exposed item collection
MaxItems == 2
\* most changes of the provider's list behind the component's back
MaxRemoteChanges == 1
\* longest name and remote id of the round-trip specification
MaxStrLen == 2

----------------------------------------------------------------------------
(* Strings. *)

Str(c) == <<c>>

\* The characters of the round-trip specification.
Chars == {"a", " ", "[", "]"}

RECURSIVE StringsUpTo(_)
StringsUpTo(n) ==
    IF n = 0 THEN {<< >>}
    ELSE LET shorter == StringsUpTo(n - 1)
         IN  shorter \cup {Append(s, c) : s \in {t \in shorter : Len(t) = n - 1}, c \in Chars}

\* Python `" [" in name`.
HasMarker(name) ==
    \E p \in 1..(Len(name) - 1) : name[p] = " " /\ name[p + 1] = "["

\* Python name.index(" ["), as a 1-based position.
MarkerIndex(name) ==
    CHOOSE p \in 1..(Len(name) - 1) :
        /\ name[p] = " " /\ name[p + 1] = "["
        /\ \A q \in 1..(p - 1) : ~(name[q] = " " /\ name[q + 1] = "[")

----------------------------------------------------------------------------
(* Items and their renderings. *)

\* ShoppingItem.__init__
ShoppingItem(name, id, groceryId, bought) ==
    [name |-> name, id |-> id, groceryId |-> groceryId, bought |-> bought]

\* ShoppingItem.to_ha
to_ha(item) ==
    [name     |-> item.name \o <<" ", "[">> \o item.groceryId \o <<"]">>,
     id       |-> item.id,
     complete |-> item.bought]

\* Faulty variant of SplitDisplayName: the remote id is cut up to the end of the
\* name, closing bracket included.
SplitDisplayName_keeps_bracket(name) ==
    IF HasMarker(name)
    THEN [name      |-> SubSeq(name, 1, MarkerIndex(name) - 1),
          groceryId |-> SubSeq(name, MarkerIndex(name) + 2, Len(name))]
    ELSE [name |-> name, groceryId |-> << >>]

\* The split of a display name, written out three times in the source
\* (ha_to_shopping_item, async_add, async_update) with the same text.
SplitDisplayName(name) ==
    IF HasMarker(name)
    THEN [name      |-> SubSeq(name, 1, MarkerIndex(name) - 1),
          groceryId |-> SubSeq(name, MarkerIndex(name) + 2, Len(name) - 1)]
    ELSE [name |-> name, groceryId |-> << >>]

\* ShoppingData.ha_to_shopping_item
ha_to_shopping_item(rec) ==
    LET sp == SplitDisplayName(rec.name)
    IN  ShoppingItem(sp.name, rec.id, sp.groceryId, rec.complete)

----------------------------------------------------------------------------
(* Python dicts, as insertion-ordered sequences of [key, item] pairs. *)

EmptyDict == << >>

DictKeys(d) == {d[i].key : i \in DOMAIN d}

DictHas(d, k) == \E i \in DOMAIN d : d[i].key = k

DictGet(d, k) == d[CHOOSE i \in DOMAIN d : d[i].key = k].item

\* d[k] = v: an existing key keeps its position, a new key goes last.
DictSet(d, k, v) ==
    IF DictHas(d, k)
    THEN [i \in DOMAIN d |-> IF d[i].key = k THEN [key |-> k, item |-> v] ELSE d[i]]
    ELSE Append(d, [key |-> k, item |-> v])

\* d.pop(k)
DictPop(d, k) == SelectSeq(d, LAMBDA e : e.key # k)

\* Two dicts are equal in Python when they hold the same pairs, in any order.
DictPairs(d) == {d[i] : i \in DOMAIN d}

----------------------------------------------------------------------------
(* GroshData: the identity resolver and the shadow lists. *)

\* GroshData.grosh_to_shopping: the key of the first entry of item_map with
\* the remote item's name and groceryId, else the remote item's name.
grosh_to_shopping(bitm, item_map, bought) ==
    LET hits == {i \in DOMAIN item_map :
                    /\ bitm.name = item_map[i].item.name
                    /\ bitm.groceryId = item_map[i].item.groceryId}
        name == IF hits = {} THEN bitm.name
                ELSE item_map[CHOOSE i \in hits : \A j \in hits : i <= j].key
    IN  ShoppingItem(bitm.name, name, bitm.groceryId, bought)

\* GroshData.update_lists, given what GroshApi.get_items returned.
update_lists(map, lists) ==
    [purchase_list |-> [i \in DOMAIN lists.purchase |->
                           grosh_to_shopping(lists.purchase[i], map, FALSE)],
     recent_list   |-> [i \in DOMAIN lists.bought |->
                           grosh_to_shopping(lists.bought[i], map, TRUE)]]

\* GroshData.convert_name
convert_name(cat, name) ==
    IF name \in DOMAIN cat /\ cat[name] # << >> THEN cat[name] ELSE name

----------------------------------------------------------------------------
(* GroshApi: the calls the list operations make.  A call yields the         *)
(* exception it raises ("none" when it returns), the HTTP requests it        *)
(* issued, and for a GET the value it returns.                               *)

NoExc == "none"

\* Positional parameters of GroshApi.purchase_item besides self.
PurchaseItemParams == 1

\* GroshApi.purchase_item(item), called with the positional arguments args.
GroshApi_purchase_item(args) ==
    IF Len(args) # PurchaseItemParams
    THEN [exc |-> "TypeError", calls |-> << >>]
    ELSE [exc |-> NoExc,
          calls |-> <<[method |-> "PUT", endpoint |-> "bought", arg |-> args[1]]>>]

\* GroshApi.recent_item: raises before anything else.
GroshApi_recent_item(item) ==
    [exc |-> "NotImplementedError", calls |-> << >>]

\* GroshApi.remove_item: raises before anything else.
GroshApi_remove_item(item) ==
    [exc |-> "NotImplementedError", calls |-> << >>]

\* GroshApi.get_items: GET /households/{GroshListID}/current; check_response
\* raises when the provider does not answer 200 or 204.
GroshApi_get_items(answered, contents) ==
    [exc   |-> IF answered THEN NoExc ELSE "Exception",
     calls |-> <<[method |-> "GET", endpoint |-> "current", arg |-> << >>]>>,
     value |-> contents]

\* GroshData.purchase_item
GroshData_purchase_item(cat, item) ==
    GroshApi_purchase_item(<<convert_name(cat, item.name), item.groceryId>>)

\* GroshData.recent_item
GroshData_recent_item(cat, item) ==
    GroshApi_recent_item(convert_name(cat, item.name))

\* GroshData.remove_item
GroshData_remove_item(cat, item) ==
    GroshApi_remove_item(convert_name(cat, item.name))

----------------------------------------------------------------------------
(* ShoppingData: helpers. *)

\* Faulty variant of MergeResolved: the entry is stored under the item's name.
RECURSIVE MergeResolved_by_name(_, _)
MergeResolved_by_name(map, resolved) ==
    IF resolved = << >> THEN map
    ELSE MergeResolved_by_name(DictSet(map, Head(resolved).name, Head(resolved)),
                               Tail(resolved))

\* Faulty variant of MergeResolved: an id the map already holds is not overwritten.
RECURSIVE MergeResolved_keep_local(_, _)
MergeResolved_keep_local(map, resolved) ==
    IF resolved = << >> THEN map
    ELSE MergeResolved_keep_local(
             IF DictHas(map, Head(resolved).id) THEN map
             ELSE DictSet(map, Head(resolved).id, Head(resolved)),
             Tail(resolved))

\* The loop of sync_grosh: map_items[itm.id] = itm for every resolved item.
RECURSIVE MergeResolved(_, _)
MergeResolved(map, resolved) ==
    IF resolved = << >> THEN map
    ELSE MergeResolved(DictSet(map, Head(resolved).id, Head(resolved)), Tail(resolved))

\* The last line of sync_grosh: items = [itm.to_ha() for k, itm in map_items.items()].
RenderItems(map) == [i \in DOMAIN map |-> to_ha(map[i].item)]

\* Faulty variant of sync_grosh: the map is rebuilt from the pull alone.
sync_grosh_rebuild(map, lists) ==
    LET ul     == update_lists(map, lists)
        merged == MergeResolved(EmptyDict, ul.purchase_list \o ul.recent_list)
    IN  [map_items     |-> merged,
         purchase_list |-> ul.purchase_list,
         recent_list   |-> ul.recent_list,
         items         |-> RenderItems(merged)]

\* Faulty variant of sync_grosh: the bought group is merged first.
sync_grosh_bought_first(map, lists) ==
    LET ul     == update_lists(map, lists)
        merged == MergeResolved(map, ul.recent_list \o ul.purchase_list)
    IN  [map_items     |-> merged,
         purchase_list |-> ul.purchase_list,
         recent_list   |-> ul.recent_list,
         items         |-> RenderItems(merged)]

\* ShoppingData.sync_grosh after a fetch that returned `lists`.
sync_grosh(map, lists) ==
    LET ul     == update_lists(map, lists)
        merged == MergeResolved(map, ul.purchase_list \o ul.recent_list)
    IN  [map_items     |-> merged,
         purchase_list |-> ul.purchase_list,
         recent_list   |-> ul.recent_list,
         items         |-> RenderItems(merged)]

\* ShoppingData.sync_grosh from the return of the fetch on, when other
\* coroutines ran while it was suspended: update_lists resolves against the
\* dict it was handed when sync_grosh was called (`captured`), the loop
\* stores into the dict self.map_items names now (`map`).
sync_grosh_resumed(map, captured, lists) ==
    LET ul     == update_lists(captured, lists)
        merged == MergeResolved(map, ul.purchase_list \o ul.recent_list)
    IN  [map_items     |-> merged,
         purchase_list |-> ul.purchase_list,
         recent_list   |-> ul.recent_list,
         items         |-> RenderItems(merged)]

\* ShoppingData.find_item: the first position holding the id, 0 for None.
find_item(its, id) ==
    IF \E i \in DOMAIN its : its[i].id = id
    THEN CHOOSE i \in DOMAIN its : its[i].id = id /\ \A j \in 1..(i - 1) : its[j].id # id
    ELSE 0

\* The comprehension of update_item: a record is kept unless an equal one follows.
DropEarlierDuplicates(its) ==
    LET keep == {n \in DOMAIN its : \A m \in (n + 1)..Len(its) : its[m] # its[n]}
        RECURSIVE Build(_)
        Build(n) == IF n > Len(its) THEN << >>
                    ELSE IF n \in keep THEN <<its[n]>> \o Build(n + 1)
                    ELSE Build(n + 1)
    IN  Build(1)

\* ShoppingData.update_item, when find_item found a position.
update_item(its, id, item) ==
    DropEarlierDuplicates([its EXCEPT ![find_item(its, id)] = to_ha(item)])

\* ShoppingData.remove: list.remove(x) drops the first equal element, if any.
remove(list, x) ==
    IF \E i \in DOMAIN list : list[i] = x
    THEN LET i == CHOOSE i \in DOMAIN list : list[i] = x /\ \A j \in 1..(i - 1) : list[j] # x
         IN  SubSeq(list, 1, i - 1) \o SubSeq(list, i + 1, Len(list))
    ELSE list

----------------------------------------------------------------------------
(* ShoppingData: the list operations.  Each is computed from the state st    *)
(* = [map_items, items, purchase_list, recent_list] it starts in and gives   *)
(* the state it leaves, the exception it raises ("none" when it returns),    *)
(* the pull its reconciliation pass merged (a sequence of none or one) and   *)
(* the map it merged it into (none or one), the record it returns (none or   *)
(* one), the HTTP requests it issued and what it saved to the blob (none or  *)
(* one).  `steps` lists, in order, the statements of the operation that ran  *)
(* to their end: "items" for a change of self.items, "map" for a change of   *)
(* map_items or of an entry of it, "push" for a push to the provider that    *)
(* returned, "sync" for a reconciliation pass and "save" for self.save.      *)

Result(st, exc, pull, ret, reqs, saved) ==
    [st |-> st, exc |-> exc, pull |-> pull, ret |-> ret, calls |-> reqs, saved |-> saved,
     merged_into |-> << >>, steps |-> << >>]

\* The result r of the rest of an operation, after the steps `done`.
Prefixed(done, r) == [r EXCEPT !.steps = done \o @]

\* The await self.sync_grosh() of an operation and what follows it: the
\* operation saves self.items when `save` holds and returns `ret`.
WithSync(st, answered, contents, reqs, ret, save) ==
    LET fetch == GroshApi_get_items(answered, contents)
    IN  IF fetch.exc # NoExc
        THEN Result(st, fetch.exc, << >>, << >>, reqs \o fetch.calls, << >>)
        ELSE LET s == sync_grosh(st.map_items, fetch.value)
             IN  [Result(s, NoExc, <<contents>>, ret, reqs \o fetch.calls,
                         IF save THEN <<s.items>> ELSE << >>)
                     EXCEPT !.merged_into = <<st.map_items>>,
                            !.steps = IF save THEN <<"sync", "save">> ELSE <<"sync">>]

\* ShoppingData.sync_grosh, called on its own (the grosh_sync service).
sync_grosh_call(st, answered, contents) ==
    WithSync(st, answered, contents, << >>, << >>, FALSE)

\* ShoppingData.async_add
async_add(st, cat, name, answered, contents) ==
    LET sp    == SplitDisplayName(name)
        item  == ShoppingItem(sp.name, sp.name, sp.groceryId, FALSE)
        st1   == [st EXCEPT !.items = Append(st.items, to_ha(item))]
        push  == GroshData_purchase_item(cat, item)
        st2   == [st1 EXCEPT !.map_items = DictSet(st.map_items, item.id, item)]
    IN  IF push.exc # NoExc
        THEN Prefixed(<<"items">>, Result(st1, push.exc, << >>, << >>, push.calls, << >>))
        ELSE Prefixed(<<"items", "push", "map">>,
                      WithSync(st2, answered, contents, push.calls, <<to_ha(item)>>, TRUE))

\* ITEM_UPDATE_SCHEMA: only the keys "bought" and "name" are accepted.
ITEM_UPDATE_SCHEMA_accepts(info) ==
    \A i \in DOMAIN info : info[i].key \in {"bought", "name"}

\* Faulty variant of SetBoughtInPlace: the entry is taken out of the map.
SetBoughtInPlace_pops_entry(st, item_id, value) ==
    [st EXCEPT !.map_items = DictPop(st.map_items, item_id)]

\* item.bought = value on the object the map holds: the same object is the
\* last element of purchase_list + recent_list resolved to that id, when the
\* last pass resolved one.
SetBoughtInPlace(st, item_id, value) ==
    LET both == st.purchase_list \o st.recent_list
        at   == {i \in DOMAIN both : both[i].id = item_id}
        last_at == CHOOSE i \in at : \A j \in at : j <= i
        both1 == IF at = {} THEN both
                 ELSE [both EXCEPT ![last_at].bought = value]
        n    == Len(st.purchase_list)
    IN  [st EXCEPT
            !.map_items = DictSet(st.map_items, item_id,
                                  [DictGet(st.map_items, item_id) EXCEPT !.bought = value]),
            !.purchase_list = SubSeq(both1, 1, n),
            !.recent_list = SubSeq(both1, n + 1, Len(both1))]

\* The push of async_update: recent_item for a bought item, else purchase_item.
UpdatePush(cat, item) ==
    IF item.bought THEN GroshData_recent_item(cat, item)
    ELSE GroshData_purchase_item(cat, item)

\* async_update from its push on, for the item as changed and the state so far.
UpdateTail(st, cat, item_id, item, reqs, answered, contents) ==
    LET push == UpdatePush(cat, item)
    IN  IF push.exc # NoExc
        THEN Result(st, push.exc, << >>, << >>, reqs \o push.calls, << >>)
        ELSE IF find_item(st.items, item_id) = 0
        THEN Prefixed(<<"push">>,
                      Result(st, "TypeError", << >>, << >>, reqs \o push.calls, << >>))
        ELSE Prefixed(<<"push", "items">>,
                      WithSync([st EXCEPT !.items = update_item(st.items, item_id, item)],
                               answered, contents, reqs \o push.calls, <<to_ha(item)>>, TRUE))

\* ShoppingData.async_update
async_update(st, cat, item_id, info, answered, contents) ==
    IF ~DictHas(st.map_items, item_id)
    THEN Result(st, "KeyError", << >>, << >>, << >>, << >>)
    ELSE IF ~ITEM_UPDATE_SCHEMA_accepts(info)
    THEN Result(st, "Invalid", << >>, << >>, << >>, << >>)
    ELSE IF info = << >>
    THEN Result(st, "IndexError", << >>, << >>, << >>, << >>)
    ELSE LET item  == DictGet(st.map_items, item_id)
             key   == info[1].key
             value == info[1].value
         IN  IF key = "bought"
             THEN Prefixed(<<"map">>,
                           UpdateTail(SetBoughtInPlace(st, item_id, value), cat, item_id,
                                      [item EXCEPT !.bought = value], << >>,
                                      answered, contents))
             ELSE LET sp   == SplitDisplayName(value)
                      rm   == GroshData_remove_item(cat, item)
                      item1 == ShoppingItem(sp.name, sp.name, sp.groceryId, item.bought)
                      st1  == [st EXCEPT !.map_items =
                                  DictSet(DictPop(st.map_items, item_id), item1.name, item1)]
                  IN  IF rm.exc # NoExc
                      THEN Result(st, rm.exc, << >>, << >>, rm.calls, << >>)
                      ELSE Prefixed(<<"push", "map">>,
                                    UpdateTail(st1, cat, item_id, item1, rm.calls,
                                               answered, contents))

\* bought_item_service: the first record of items with the name, then
\* async_update(item["id"], {"name": name, "bought": True}); a name no
\* record has is logged and the service returns.
bought_item_service(st, cat, name, answered, contents) ==
    LET hits == {i \in DOMAIN st.items : st.items[i].name = name}
        item == st.items[CHOOSE i \in hits : \A j \in hits : i <= j]
    IN  IF hits = {}
        THEN Result(st, NoExc, << >>, << >>, << >>, << >>)
        ELSE async_update(st, cat, item.id,
                          <<[key |-> "name", value |-> name],
                            [key |-> "bought", value |-> TRUE]>>,
                          answered, contents)

\* list.remove(itm) on recent_list: ShoppingItem defines no __eq__, so the
\* element removed is the object itself, which is the last element of
\* purchase_list + recent_list resolved to the entry's id.
RemoveFromRecent(st, id) ==
    LET both == st.purchase_list \o st.recent_list
        at   == {i \in DOMAIN both : both[i].id = id}
        last_at == CHOOSE i \in at : \A j \in at : j <= i
        n    == Len(st.purchase_list)
    IN  IF at = {} \/ last_at <= n THEN st.recent_list
        ELSE SubSeq(st.recent_list, 1, last_at - n - 1)
             \o SubSeq(st.recent_list, last_at - n + 1, Len(st.recent_list))

\* The first loop of async_clear_completed from position i of the map on.
RECURSIVE ClearLoop(_, _, _, _, _)
ClearLoop(st, cat, i, to_remove, reqs) ==
    IF i > Len(st.map_items)
    THEN [st |-> st, exc |-> NoExc, to_remove |-> to_remove, calls |-> reqs]
    ELSE LET key == st.map_items[i].key
             itm == st.map_items[i].item
             rm  == GroshData_remove_item(cat, itm)
         IN  IF ~itm.bought
             THEN ClearLoop(st, cat, i + 1, to_remove, reqs)
             ELSE IF rm.exc # NoExc
             THEN [st |-> st, exc |-> rm.exc, to_remove |-> to_remove,
                   calls |-> reqs \o rm.calls]
             ELSE ClearLoop([st EXCEPT !.recent_list = RemoveFromRecent(st, itm.id),
                                       !.items = remove(st.items, to_ha(itm))],
                            cat, i + 1, Append(to_remove, key), reqs \o rm.calls)

\* The second loop of async_clear_completed: map_items.pop(key) for each key.
RECURSIVE PopAll(_, _)
PopAll(map, ks) ==
    IF ks = << >> THEN map ELSE PopAll(DictPop(map, Head(ks)), Tail(ks))

\* ShoppingData.async_clear_completed
async_clear_completed(st, cat, answered, contents) ==
    LET loop == ClearLoop(st, cat, 1, << >>, << >>)
        RECURSIVE Removals(_)
        Removals(n) == IF n = 0 THEN << >> ELSE <<"push", "items">> \o Removals(n - 1)
        done == Removals(Len(loop.to_remove))
    IN  IF loop.exc # NoExc
        THEN Prefixed(done, Result(loop.st, loop.exc, << >>, << >>, loop.calls, << >>))
        ELSE Prefixed(done \o (IF loop.to_remove = << >> THEN << >> ELSE <<"map">>),
                      WithSync([loop.st EXCEPT
                                   !.map_items = PopAll(loop.st.map_items, loop.to_remove)],
                               answered, contents, loop.calls, << >>, TRUE))

\* Faulty variant of select_list: the last list with the name is selected.
select_list_last_match(a, answered, found, name) ==
    LET get  == <<[method |-> "GET", endpoint |-> "households", arg |-> << >>]>>
        hits == {i \in DOMAIN found : found[i].name = name}
        selected == found[CHOOSE i \in hits : \A j \in hits : j <= i]
    IN  IF ~answered
        THEN [api |-> a, exc |-> "Exception", calls |-> get]
        ELSE IF hits = {}
        THEN [api |-> a, exc |-> "ValueError", calls |-> get]
        ELSE [api |-> [a EXCEPT !.GroshListID = selected.id,
                                !.selected_list = selected.name],
              exc |-> NoExc, calls |-> get]

\* GroshApi.get_lists and GroshApi.select_list: `found` is what the provider
\* lists for the account (self.lists, which nothing else reads).
select_list(a, answered, found, name) ==
    LET get  == <<[method |-> "GET", endpoint |-> "households", arg |-> << >>]>>
        hits == {i \in DOMAIN found : found[i].name = name}
        selected == found[CHOOSE i \in hits : \A j \in hits : i <= j]
    IN  IF ~answered
        THEN [api |-> a, exc |-> "Exception", calls |-> get]
        ELSE IF hits = {}
        THEN [api |-> a, exc |-> "ValueError", calls |-> get]
        ELSE [api |-> [a EXCEPT !.GroshListID = selected.id,
                                !.selected_list = selected.name],
              exc |-> NoExc, calls |-> get]

\* Faulty variant of switch_list: the map is not emptied.
switch_list_keeps_map(st, sel, answered, contents) ==
    IF sel.exc # NoExc
    THEN Result(st, sel.exc, << >>, << >>, sel.calls, << >>)
    ELSE WithSync(st, answered, contents, sel.calls, << >>, FALSE)

\* ShoppingData.switch_list, after select_list gave `sel`.
switch_list(st, sel, answered, contents) ==
    LET st1 == [st EXCEPT !.map_items = EmptyDict]
    IN  IF sel.exc # NoExc
        THEN Prefixed(<<"map">>, Result(st1, sel.exc, << >>, << >>, sel.calls, << >>))
        ELSE Prefixed(<<"map">>, WithSync(st1, answered, contents, sel.calls, << >>, FALSE))

\* Faulty variant of LoadRecords: a record is stored under its name.
RECURSIVE LoadRecords_by_name(_, _)
LoadRecords_by_name(map, recs) ==
    IF recs = << >> THEN map
    ELSE LoadRecords_by_name(
             DictSet(map, ha_to_shopping_item(Head(recs)).name,
                     ha_to_shopping_item(Head(recs))),
             Tail(recs))

\* The loop of async_load: map_items[itm["id"]] = ha_to_shopping_item(itm).
RECURSIVE LoadRecords(_, _)
LoadRecords(map, recs) ==
    IF recs = << >> THEN map
    ELSE LoadRecords(DictSet(map, Head(recs).id, ha_to_shopping_item(Head(recs))),
                     Tail(recs))

\* ShoppingData.async_load, with `blob` what load_json read.
async_load(st, blob, answered, contents) ==
    Prefixed(<<"items", "map">>,
             WithSync([st EXCEPT !.items = blob,
                                 !.map_items = LoadRecords(st.map_items, blob)],
                      answered, contents, << >>, << >>, FALSE))

----------------------------------------------------------------------------
(* GroshApi: the HTTP layer.  A response is [status, body]; body tells what  *)
(* the provider sent: "json_error" a JSON object with errorCode and error,   *)
(* "json_object" a JSON object without errorCode, "json_list" a non-empty    *)
(* JSON array, "bad_json" text that is no JSON sent as application/json,     *)
(* "html" text that is no JSON sent with another content type, "empty" no    *)
(* body.  `transport` is what session.get does before any response: "ok",   *)
(* "InvalidURL" for a malformed target, "ClientConnectionError" for a        *)
(* network failure.                                                          *)

Statuses == {200, 204, 400, 401, 404, 500}
Bodies == {"json_error", "json_object", "json_list", "bad_json", "html", "empty"}
Transports == {"ok", "InvalidURL", "ClientConnectionError"}
Responses == [status : Statuses, body : Bodies]

\* response.json(content_type=None) in check_response, with JSONDecodeError
\* caught and replaced by response.text(), then `if not result: result = None`.
ErrorBody(body) ==
    CASE body \in {"json_error", "json_object"} -> [type |-> "dict", value |-> body]
      [] body = "json_list"                     -> [type |-> "list", value |-> body]
      [] body \in {"bad_json", "html"}          -> [type |-> "str", value |-> body]
      [] OTHER                                  -> [type |-> "None", value |-> "reason"]

\* GroshApi.check_response: the exception it raises and what the exception
\* carries.
check_response(response) ==
    LET result == ErrorBody(response.body)
    IN  IF response.status \in {200, 204}
        THEN [exc |-> NoExc, carries |-> ""]
        ELSE IF response.status = 404
        THEN [exc |-> "Exception", carries |-> "reason"]
        ELSE IF response.status = 401
        THEN [exc |-> "AuthentificationFailed", carries |-> result.value]
        ELSE IF result.type # "dict"
        THEN [exc |-> "AttributeError", carries |-> ""]
        ELSE IF result.value = "json_error"
        THEN [exc |-> "Exception", carries |-> "error"]
        ELSE [exc |-> "Exception", carries |-> result.value]

\* GroshApi.__get: session.get, check_response, then response.json().
GroshApi__get(transport, response) ==
    LET checked == check_response(response)
    IN  IF transport # "ok" THEN [exc |-> transport, carries |-> ""]
        ELSE IF checked.exc # NoExc THEN checked
        ELSE IF response.body = "bad_json" THEN [exc |-> "JSONDecodeError", carries |-> ""]
        ELSE IF response.body = "html" THEN [exc |-> "ContentTypeError", carries |-> ""]
        ELSE [exc |-> NoExc, carries |-> response.body]

\* GroshApi.login: InvalidURL and ValueError (JSONDecodeError is one) are
\* turned into AuthentificationFailed, anything else is passed on.
login(a, transport, response) ==
    LET got == GroshApi__get(transport, response)
    IN  IF got.exc = NoExc
        THEN [api |-> [a EXCEPT !.logged = TRUE], exc |-> NoExc, carries |-> ""]
        ELSE IF got.exc \in {"InvalidURL", "JSONDecodeError"}
        THEN [api |-> a, exc |-> "AuthentificationFailed",
              carries |-> "email password combination not existing"]
        ELSE [api |-> a, exc |-> got.exc, carries |-> got.carries]

----------------------------------------------------------------------------
(* The callers of async_update: what each answers when async_update ended   *)
(* with exception exc ("none" when it returned).  An exception a handler    *)
(* does not catch leaves it.                                                *)

\* UpdateShoppingListItemView.post
UpdateShoppingListItemView_post(exc) ==
    CASE exc = NoExc      -> [raised |-> NoExc, status |-> "OK", body |-> "item"]
      [] exc = "KeyError" -> [raised |-> NoExc, status |-> "NOT_FOUND",
                              body |-> "Item not found"]
      [] exc = "Invalid"  -> [raised |-> NoExc, status |-> "BAD_REQUEST",
                              body |-> "Item not found"]
      [] OTHER            -> [raised |-> exc, status |-> "", body |-> ""]

\* Faulty variant of websocket_handle_update: KeyError is not caught.
websocket_handle_update_uncaught(exc) ==
    IF exc = NoExc THEN [raised |-> NoExc, message |-> "result", code |-> ""]
    ELSE [raised |-> exc, message |-> "", code |-> ""]

\* websocket_handle_update
websocket_handle_update(exc) ==
    CASE exc = NoExc      -> [raised |-> NoExc, message |-> "result", code |-> ""]
      [] exc = "KeyError" -> [raised |-> NoExc, message |-> "error",
                              code |-> "item_not_found"]
      [] OTHER            -> [raised |-> exc, message |-> "", code |-> ""]

----------------------------------------------------------------------------
(* Inputs: what callers pass and what the provider and the blob hold. *)

SeqsUpTo(S, n) == UNION {[1..k -> S] : k \in 0..n}

\* Plain item names and remote ids (groceryId) of the provider.
Names == {<<"a">>, <<"b">>}
Gids == {<<"1">>, <<"2">>}

\* An item of the provider's answer to get_items.
RemoteItems == [name : Names, groceryId : Gids] \ {[name |-> <<"b">>, groceryId |-> <<"2">>]}

\* The "groceries" object of the answer: its "purchase" and "bought" groups.
RemoteContentsUpTo(n) ==
    {c \in [purchase : SeqsUpTo(RemoteItems, n), bought : SeqsUpTo(RemoteItems, n)] :
        Len(c.purchase) + Len(c.bought) <= n}

\* s without its i-th element.
Without(s, i) == SubSeq(s, 1, i - 1) \o SubSeq(s, i + 1, Len(s))

\* What one change at the provider makes of the contents c: an item is
\* removed, moved to the other group, or added (while at most n are listed).
RemoteEdits(c, n) ==
    {[c EXCEPT !.purchase = Without(c.purchase, i)] : i \in DOMAIN c.purchase}
    \cup {[c EXCEPT !.bought = Without(c.bought, i)] : i \in DOMAIN c.bought}
    \cup {[purchase |-> Without(c.purchase, i), bought |-> Append(c.bought, c.purchase[i])] :
              i \in DOMAIN c.purchase}
    \cup {[purchase |-> Append(c.purchase, c.bought[i]), bought |-> Without(c.bought, i)] :
              i \in DOMAIN c.bought}
    \cup {[c EXCEPT !.purchase = Append(c.purchase, x)] :
              x \in IF Len(c.purchase) + Len(c.bought) < n THEN RemoteItems ELSE {}}
    \cup {[c EXCEPT !.bought = Append(c.bought, x)] :
              x \in IF Len(c.purchase) + Len(c.bought) < n THEN RemoteItems ELSE {}}

\* Names as the front end shows and sends them: plain, or with " [<id>]".
DisplayNames ==
    {<<"a">>} \cup {n \o <<" ", "[", "1", "]">> : n \in Names}

\* Records of the blob.  The file (.shopping_list.json) is read as it is
\* found, and it is also the file of the Bring variant of the component
\* (custom_shopping_list), whose ids are free text: an id need not be the name.
BlobRecords == [name : DisplayNames, id : Names, complete : BOOLEAN]
Blobs == SeqsUpTo(BlobRecords, MaxBlob)

\* The provider's catalog (GET /groceries).
Catalogs == {(<<"a">> :> <<"c">>)}

\* The households of the account (GET /users/me/households), and list names
\* a caller may ask for.
Households == <<[name |-> <<"w">>, id |-> "h1"]>>
ListNames == {<<"w">>, <<"x">>}

\* Arguments of add and update.
AddNames == {<<"a">>, <<"a", " ", "[", "1", "]">>, << >>}
Patches ==
    {<<[key |-> "bought", value |-> v]>> : v \in BOOLEAN}
    \cup {<<[key |-> "name", value |-> <<"b">>]>>}
    \cup {<<[key |-> "complete", value |-> TRUE]>>}

----------------------------------------------------------------------------
(* The state machine. *)

Current ==
    [map_items |-> map_items, items |-> items,
     purchase_list |-> purchase_list, recent_list |-> recent_list]

\* An operation ends with result r.
Apply(op, arg, r) ==
    /\ map_items' = r.st.map_items
    /\ items' = r.st.items
    /\ purchase_list' = r.st.purchase_list
    /\ recent_list' = r.st.recent_list
    /\ calls' = r.calls
    /\ persisted' = IF r.saved = << >> THEN persisted ELSE r.saved[1]
    /\ last' = [op |-> op, arg |-> arg, exc |-> r.exc, pre |-> map_items,
                pull |-> r.pull, merged_into |-> r.merged_into, steps |-> r.steps,
                in_sync |-> last.exc = NoExc /\ last.pull = <<remote>>,
                after_failed_push |->
                    /\ last.op \in {"add", "update", "clear", "bought_item"}
                    /\ last.exc \in {"TypeError", "NotImplementedError"},
                ret |-> r.ret]

NoProbe == [name |-> << >>, groceryId |-> << >>, rendered |-> << >>, parsed |-> << >>]

\* ShoppingData.__init__, GroshData.__init__ and GroshApi.__init__.
Init ==
    /\ map_items = EmptyDict
    /\ items = << >>
    /\ purchase_list = << >>
    /\ recent_list = << >>
    /\ catalog \in Catalogs
    /\ persisted \in Blobs
    /\ remote \in RemoteContentsUpTo(MaxRemote)
    /\ phase = "setup"
    /\ calls = << >>
    /\ api = [GroshListID |-> "", selected_list |-> <<"D", "e", "f", "a", "u", "l", "t">>]
    /\ last = [op |-> "init", arg |-> << >>, exc |-> NoExc, pre |-> EmptyDict,
               pull |-> << >>, merged_into |-> << >>, steps |-> << >>,
               in_sync |-> FALSE, after_failed_push |-> FALSE, ret |-> << >>]
    /\ changes = 0
    /\ probe = NoProbe

\* async_setup_entry from the construction of ShoppingData on: switch_list
\* when a list name is configured (<< >> when none is), then async_load.
\* No service, view or command is registered before it returns.
async_setup_entry(st, a, list_name, blob, answered, contents) ==
    LET sel == IF list_name = << >> THEN [api |-> a, exc |-> NoExc, calls |-> << >>]
               ELSE select_list(a, answered.lists, Households, list_name)
        sw  == IF list_name = << >> THEN Result(st, NoExc, << >>, << >>, << >>, << >>)
               ELSE switch_list(st, sel, answered.switch, contents)
        ld  == async_load(sw.st, blob, answered.load, contents)
    IN  [api |-> sel.api,
         r   |-> IF sw.exc # NoExc THEN sw
                 ELSE [ld EXCEPT !.calls = sw.calls \o ld.calls,
                                 !.steps = sw.steps \o @]]

Setup ==
    \E list_name \in ListNames \cup {<< >>},
       answered \in [lists : BOOLEAN, switch : BOOLEAN, load : BOOLEAN] :
        LET s == async_setup_entry(Current, api, list_name, persisted, answered, remote)
        IN  /\ phase = "setup"
            /\ Apply("setup", <<list_name>>, s.r)
            /\ api' = s.api
            /\ phase' = IF s.r.exc = NoExc THEN "ready" ELSE "failed"
            /\ UNCHANGED <<catalog, remote, changes, probe>>

\* add_item service, CreateShoppingListItemView, websocket_handle_add.
Add ==
    \E name \in AddNames, answered \in BOOLEAN :
        /\ phase = "ready"
        /\ Len(items) < MaxItems
        /\ Apply("add", <<name>>, async_add(Current, catalog, name, answered, remote))
        /\ UNCHANGED <<catalog, remote, phase, api, changes, probe>>

\* UpdateShoppingListItemView, websocket_handle_update.
Update ==
    \E item_id \in Names, info \in Patches, answered \in BOOLEAN :
        /\ phase = "ready"
        /\ Apply("update", <<item_id, info>>,
                 async_update(Current, catalog, item_id, info, answered, remote))
        /\ UNCHANGED <<catalog, remote, phase, api, changes, probe>>

\* bought_item service.
BoughtItem ==
    \E name \in DisplayNames, answered \in BOOLEAN :
        /\ phase = "ready"
        /\ Apply("bought_item", <<name>>,
                 bought_item_service(Current, catalog, name, answered, remote))
        /\ UNCHANGED <<catalog, remote, phase, api, changes, probe>>

\* remove_completed_items service, ClearCompletedItemsView, websocket_handle_clear.
ClearCompleted ==
    \E answered \in BOOLEAN :
        /\ phase = "ready"
        /\ Apply("clear", << >>, async_clear_completed(Current, catalog, answered, remote))
        /\ UNCHANGED <<catalog, remote, phase, api, changes, probe>>

\* grosh_select_list service.
SwitchList ==
    \E name \in ListNames, answered \in BOOLEAN :
        LET sel == select_list(api, answered, Households, name)
            r   == switch_list(Current, sel, answered, remote)
        IN  /\ phase = "ready"
            /\ Apply("switch_list", <<name>>, r)
            /\ api' = sel.api
            /\ UNCHANGED <<catalog, remote, phase, changes, probe>>

\* grosh_sync service.
Sync ==
    \E answered \in BOOLEAN :
        /\ phase = "ready"
        /\ Apply("sync", << >>, sync_grosh_call(Current, answered, remote))
        /\ UNCHANGED <<catalog, remote, phase, api, changes, probe>>

Next ==
    \/ Setup
    \/ Add
    \/ Update
    \/ BoughtItem
    \/ ClearCompleted
    \/ SwitchList
    \/ Sync

Spec == Init /\ [][Next]_vars

----------------------------------------------------------------------------
(* The reconciliation specification: start-up and reconciliation passes     *)
(* over longer pulls, with the provider's list changing in between.         *)

InitSync ==
    /\ map_items = EmptyDict
    /\ items = << >>
    /\ purchase_list = << >>
    /\ recent_list = << >>
    /\ catalog \in Catalogs
    /\ persisted \in Blobs
    /\ remote \in RemoteContentsUpTo(MaxPull)
    /\ phase = "setup"
    /\ calls = << >>
    /\ api = [GroshListID |-> "", selected_list |-> <<"D", "e", "f", "a", "u", "l", "t">>]
    /\ last = [op |-> "init", arg |-> << >>, exc |-> NoExc, pre |-> EmptyDict,
               pull |-> << >>, merged_into |-> << >>, steps |-> << >>,
               in_sync |-> FALSE, after_failed_push |-> FALSE, ret |-> << >>]
    /\ changes = 0
    /\ probe = NoProbe

\* The provider's list changes behind the component's back.
RemoteChange ==
    /\ phase = "ready"
    /\ changes < MaxRemoteChanges
    /\ remote' \in RemoteEdits(remote, MaxPull)
    /\ changes' = changes + 1
    /\ UNCHANGED <<map_items, items, purchase_list, recent_list, catalog, persisted,
                   phase, calls, api, last, probe>>

NextSync ==
    \/ Setup
    \/ Sync
    \/ RemoteChange

SpecSync == InitSync /\ [][NextSync]_vars

----------------------------------------------------------------------------
(* The round-trip specification: an item is rendered by to_ha and the       *)
(* rendering is read back by ha_to_shopping_item, for every name and remote *)
(* id over Chars up to MaxStrLen characters.                                *)

InitSplit ==
    /\ map_items = EmptyDict
    /\ items = << >>
    /\ purchase_list = << >>
    /\ recent_list = << >>
    /\ catalog \in Catalogs
    /\ persisted = << >>
    /\ remote = [purchase |-> << >>, bought |-> << >>]
    /\ phase = "setup"
    /\ calls = << >>
    /\ api = [GroshListID |-> "", selected_list |-> <<"D", "e", "f", "a", "u", "l", "t">>]
    /\ last = [op |-> "init", arg |-> << >>, exc |-> NoExc, pre |-> EmptyDict,
               pull |-> << >>, merged_into |-> << >>, steps |-> << >>,
               in_sync |-> FALSE, after_failed_push |-> FALSE, ret |-> << >>]
    /\ changes = 0
    /\ \E name \in StringsUpTo(MaxStrLen), groceryId \in StringsUpTo(MaxStrLen) :
           probe = [name |-> name, groceryId |-> groceryId,
                    rendered |-> << >>, parsed |-> << >>]

\* item.to_ha() for the item of the probe.
Render ==
    /\ probe.rendered = << >>
    /\ probe' = [probe EXCEPT !.rendered =
                    <<to_ha(ShoppingItem(probe.name, probe.name, probe.groceryId, FALSE))>>]
    /\ UNCHANGED <<map_items, items, purchase_list, recent_list, catalog, persisted,
                   remote, phase, calls, api, last, changes>>

\* ha_to_shopping_item on the rendered record.
Parse ==
    /\ probe.rendered # << >>
    /\ probe.parsed = << >>
    /\ probe' = [probe EXCEPT !.parsed = <<ha_to_shopping_item(probe.rendered[1])>>]
    /\ UNCHANGED <<map_items, items, purchase_list, recent_list, catalog, persisted,
                   remote, phase, calls, api, last, changes>>

NextSplit ==
    \/ Render
    \/ Parse

SpecSplit == InitSplit /\ [][NextSplit]_vars

----------------------------------------------------------------------------
(* The reload specification: a map as a completed pass leaves it, with      *)
(* items its rendering, is saved and then loaded by a new ShoppingData.     *)

MaxReload == 2

\* Names and remote ids of the entries, with and without brackets.
ReloadNames == {<<"a">>, <<"b">>, <<"a", " ", "[">>, <<"[">>}
ReloadGids == {<< >>, <<"1">>, <<"]">>}

\* An entry is stored under the id of its item.
ReloadEntries ==
    {[key |-> k, item |-> ShoppingItem(n, k, g, b)] :
        k \in Names, n \in ReloadNames, g \in ReloadGids, b \in BOOLEAN}

ReloadMaps ==
    {m \in SeqsUpTo(ReloadEntries, MaxReload) :
        \A i, j \in DOMAIN m : m[i].key = m[j].key => i = j}

InitReload ==
    /\ map_items \in ReloadMaps
    /\ items = RenderItems(map_items)
    /\ purchase_list = << >>
    /\ recent_list = << >>
    /\ catalog \in Catalogs
    /\ persisted = << >>
    /\ remote \in RemoteContentsUpTo(MaxRemote)
    /\ phase = "ready"
    /\ calls = << >>
    /\ api = [GroshListID |-> "", selected_list |-> <<"D", "e", "f", "a", "u", "l", "t">>]
    /\ last = [op |-> "init", arg |-> << >>, exc |-> NoExc, pre |-> EmptyDict,
               pull |-> << >>, merged_into |-> << >>, steps |-> << >>,
               in_sync |-> FALSE, after_failed_push |-> FALSE, ret |-> << >>]
    /\ changes = 0
    /\ probe = NoProbe

\* ShoppingData.save: save_json(path, self.items).
save(st) == st.items

Save ==
    /\ phase = "ready"
    /\ persisted' = save(Current)
    /\ phase' = "saved"
    /\ UNCHANGED <<map_items, items, purchase_list, recent_list, catalog, remote,
                   calls, api, last, changes, probe>>

\* A new ShoppingData (empty map, no items) loads what was saved.
Reload ==
    \E answered \in BOOLEAN :
        /\ phase = "saved"
        /\ Apply("load", << >>,
                 async_load([map_items |-> EmptyDict, items |-> << >>,
                             purchase_list |-> << >>, recent_list |-> << >>],
                            persisted, answered, remote))
        /\ phase' = "loaded"
        /\ UNCHANGED <<catalog, remote, api, changes, probe>>

NextReload ==
    \/ Save
    \/ Reload

SpecReload == InitReload /\ [][NextReload]_vars

----------------------------------------------------------------------------
(* The provider-client specification: login, select_list and the response  *)
(* classifier of a GroshApi, with the provider answering anything.          *)

MaxLists == 2

\* What GET /users/me/households may list.
ListIds == {"h1", "h2"}
HouseholdLists == SeqsUpTo([name : ListNames, id : ListIds], MaxLists)

NoCall == [op |-> "none", transport |-> "ok", response |-> [status |-> 200, body |-> "empty"],
           found |-> << >>, name |-> << >>, answered |-> TRUE,
           exc |-> NoExc, carries |-> "", before |-> << >>]

\* GroshApi.__init__
InitApi ==
    /\ map_items = EmptyDict
    /\ items = << >>
    /\ purchase_list = << >>
    /\ recent_list = << >>
    /\ catalog \in Catalogs
    /\ persisted = << >>
    /\ remote = [purchase |-> << >>, bought |-> << >>]
    /\ phase = "setup"
    /\ calls = << >>
    /\ api = [GroshListID |-> "", selected_list |-> <<"D", "e", "f", "a", "u", "l", "t">>,
              logged |-> FALSE]
    /\ last = [op |-> "init", arg |-> << >>, exc |-> NoExc, pre |-> EmptyDict,
               pull |-> << >>, merged_into |-> << >>, steps |-> << >>,
               in_sync |-> FALSE, after_failed_push |-> FALSE, ret |-> << >>]
    /\ changes = 0
    /\ probe = NoCall

\* A response reaches check_response.
CheckResponse ==
    \E response \in Responses :
        LET r == check_response(response)
        IN  /\ probe' = [NoCall EXCEPT !.op = "check_response", !.response = response,
                                       !.exc = r.exc, !.carries = r.carries,
                                       !.before = <<api>>]
            /\ UNCHANGED <<map_items, items, purchase_list, recent_list, catalog,
                           persisted, remote, phase, calls, api, last, changes>>

\* await grosh_data.api.login()
Login ==
    \E transport \in Transports, response \in Responses :
        LET r == login(api, transport, response)
        IN  /\ api' = r.api
            /\ probe' = [NoCall EXCEPT !.op = "login", !.transport = transport,
                                       !.response = response, !.exc = r.exc,
                                       !.carries = r.carries, !.before = <<api>>]
            /\ UNCHANGED <<map_items, items, purchase_list, recent_list, catalog,
                           persisted, remote, phase, calls, last, changes>>

\* await self.grosh.api.select_list(list_name)
SelectList ==
    \E found \in HouseholdLists, name \in ListNames, answered \in BOOLEAN :
        LET r == select_list(api, answered, found, name)
        IN  /\ api' = r.api
            /\ calls' = r.calls
            /\ probe' = [NoCall EXCEPT !.op = "select_list", !.found = found,
                                       !.name = name, !.answered = answered,
                                       !.exc = r.exc, !.before = <<api>>]
            /\ UNCHANGED <<map_items, items, purchase_list, recent_list, catalog,
                           persisted, remote, phase, last, changes>>

NextApi ==
    \/ CheckResponse
    \/ Login
    \/ SelectList

SpecApi == InitApi /\ [][NextApi]_vars

----------------------------------------------------------------------------
(* The interleaving specification: after start-up two coroutines run on the *)
(* same ShoppingData and give way to each other where the code awaits I/O:  *)
(* the GET of the households, the GET of the current list and the executor  *)
(* job that saves.  A coroutine is [op, arg, pc, captured, answers, exc]:   *)
(* pc is where it is suspended, captured is << >> while the dict it handed  *)
(* to update_lists is still self.map_items and <<d>> with the contents of   *)
(* that dict once switch_list has bound self.map_items to a new one,        *)
(* answers are the outcomes of its remote calls so far.                     *)

Procs == {"p1", "p2"}

Idle == [op |-> "none", arg |-> << >>, pc |-> "idle", captured |-> << >>,
         answers |-> << >>, exc |-> NoExc]

InitConc ==
    /\ map_items = EmptyDict
    /\ items = << >>
    /\ purchase_list = << >>
    /\ recent_list = << >>
    /\ catalog \in Catalogs
    /\ persisted \in Blobs
    /\ remote \in RemoteContentsUpTo(MaxRemote)
    /\ phase = "setup"
    /\ calls = << >>
    /\ api = [GroshListID |-> "", selected_list |-> <<"D", "e", "f", "a", "u", "l", "t">>]
    /\ last = [op |-> "init", arg |-> << >>, exc |-> NoExc, pre |-> EmptyDict,
               pull |-> << >>, merged_into |-> << >>, steps |-> << >>,
               in_sync |-> FALSE, after_failed_push |-> FALSE, ret |-> << >>]
    /\ changes = 0
    /\ probe = [co |-> [p \in Procs |-> Idle], start |-> << >>]

\* The coroutine p becomes c; the state the first coroutine started in is
\* kept.
Proceed(p, c) ==
    probe' = [co    |-> [probe.co EXCEPT ![p] = c],
              start |-> IF probe.start = << >>
                        THEN <<[st |-> Current, api |-> api]>> ELSE probe.start]

SetState(st) ==
    /\ map_items' = st.map_items
    /\ items' = st.items
    /\ purchase_list' = st.purchase_list
    /\ recent_list' = st.recent_list

GetCurrent == [method |-> "GET", endpoint |-> "current", arg |-> << >>]

\* grosh_sync service up to the await of the fetch.
StartSync(p) ==
    /\ phase = "ready"
    /\ probe.co[p].pc = "idle"
    /\ Proceed(p, [Idle EXCEPT !.op = "sync", !.pc = "fetching"])
    /\ calls' = Append(calls, GetCurrent)
    /\ UNCHANGED <<map_items, items, purchase_list, recent_list, catalog, persisted,
                   remote, phase, api, last, changes>>

\* grosh_select_list service up to the await of the households:
\* self.map_items = {} leaves every suspended sync_grosh with the old dict.
StartSwitch(p) ==
    \E name \in ListNames :
        /\ phase = "ready"
        /\ probe.co[p].pc = "idle"
        /\ map_items' = EmptyDict
        /\ probe' = [co |-> [q \in Procs |->
                                IF q = p
                                THEN [Idle EXCEPT !.op = "switch_list", !.arg = name,
                                                  !.pc = "selecting"]
                                ELSE IF probe.co[q].pc = "fetching"
                                        /\ probe.co[q].captured = << >>
                                THEN [probe.co[q] EXCEPT !.captured = <<map_items>>]
                                ELSE probe.co[q]],
                     start |-> IF probe.start = << >>
                               THEN <<[st |-> Current, api |-> api]>> ELSE probe.start]
        /\ calls' = Append(calls, [method |-> "GET", endpoint |-> "households",
                                   arg |-> << >>])
        /\ UNCHANGED <<items, purchase_list, recent_list, catalog, persisted, remote,
                       phase, api, last, changes>>

\* switch_list from the return of select_list's fetch to the await of the
\* fetch of sync_grosh.
SwitchSelected(p) ==
    \E answered \in BOOLEAN :
        LET c   == probe.co[p]
            sel == select_list(api, answered, Households, c.arg)
        IN  /\ c.pc = "selecting"
            /\ api' = sel.api
            /\ IF sel.exc # NoExc
               THEN /\ Proceed(p, [c EXCEPT !.pc = "done", !.exc = sel.exc,
                                            !.answers = Append(@, answered)])
                    /\ calls' = calls
               ELSE /\ Proceed(p, [c EXCEPT !.pc = "fetching", !.captured = << >>,
                                            !.answers = Append(@, answered)])
                    /\ calls' = Append(calls, GetCurrent)
            /\ UNCHANGED <<map_items, items, purchase_list, recent_list, catalog,
                           persisted, remote, phase, last, changes>>

\* add_item service: purchase_item raises before anything is awaited.
StartAdd(p) ==
    \E name \in AddNames :
        LET r == async_add(Current, catalog, name, TRUE, remote)
        IN  /\ phase = "ready"
            /\ probe.co[p].pc = "idle"
            /\ Len(items) < MaxItems
            /\ r.exc # NoExc
            /\ SetState(r.st)
            /\ Proceed(p, [Idle EXCEPT !.op = "add", !.arg = name, !.pc = "done",
                                       !.exc = r.exc])
            /\ calls' = calls \o r.calls
            /\ UNCHANGED <<catalog, persisted, remote, phase, api, last, changes>>

\* remove_completed_items service up to its first await that suspends: the
\* loop raises at the first complete entry, else it comes to sync_grosh.
StartClear(p) ==
    LET loop == ClearLoop(Current, catalog, 1, << >>, << >>)
    IN  /\ phase = "ready"
        /\ probe.co[p].pc = "idle"
        /\ IF loop.exc # NoExc
           THEN /\ SetState(loop.st)
                /\ Proceed(p, [Idle EXCEPT !.op = "clear", !.pc = "done",
                                           !.exc = loop.exc])
                /\ calls' = calls \o loop.calls
           ELSE /\ SetState([loop.st EXCEPT
                                !.map_items = PopAll(loop.st.map_items, loop.to_remove)])
                /\ Proceed(p, [Idle EXCEPT !.op = "clear", !.pc = "fetching"])
                /\ calls' = Append(calls \o loop.calls, GetCurrent)
        /\ UNCHANGED <<catalog, persisted, remote, phase, api, last, changes>>

\* The fetch of a suspended sync_grosh returns and the pass runs to its end.
FetchReturns(p) ==
    \E answered \in BOOLEAN :
        LET c    == probe.co[p]
            base == IF c.captured = << >> THEN map_items ELSE c.captured[1]
        IN  /\ c.pc = "fetching"
            /\ IF ~answered
               THEN /\ Proceed(p, [c EXCEPT !.pc = "done", !.exc = "Exception",
                                            !.answers = Append(@, answered)])
                    /\ UNCHANGED <<map_items, items, purchase_list, recent_list>>
               ELSE /\ SetState(sync_grosh_resumed(map_items, base, remote))
                    /\ Proceed(p, [c EXCEPT !.pc = IF c.op = "clear" THEN "saving"
                                                   ELSE "done",
                                            !.captured = << >>,
                                            !.answers = Append(@, answered)])
            /\ UNCHANGED <<catalog, persisted, remote, phase, calls, api, last, changes>>

\* The executor runs self.save for a suspended async_clear_completed.
SaveReturns(p) ==
    /\ probe.co[p].pc = "saving"
    /\ persisted' = save(Current)
    /\ Proceed(p, [probe.co[p] EXCEPT !.pc = "done"])
    /\ UNCHANGED <<map_items, items, purchase_list, recent_list, catalog, remote,
                   phase, calls, api, last, changes>>

NextConc ==
    \/ Setup
    \/ \E p \in Procs : StartSync(p)
    \/ \E p \in Procs : StartSwitch(p)
    \/ \E p \in Procs : SwitchSelected(p)
    \/ \E p \in Procs : StartAdd(p)
    \/ \E p \in Procs : StartClear(p)
    \/ \E p \in Procs : FetchReturns(p)
    \/ \E p \in Procs : SaveReturns(p)

SpecConc == InitConc /\ [][NextConc]_vars

\* The i-th answer a coroutine got, an answer when it asked less often.
Answer(c, i) == IF i <= Len(c.answers) THEN c.answers[i] ELSE TRUE

\* The operation of coroutine c run alone from s = [st, api], with the
\* answers c got.
RunAlone(c, s) ==
    CASE c.op = "sync" ->
             [st |-> sync_grosh_call(s.st, Answer(c, 1), remote).st, api |-> s.api]
      [] c.op = "switch_list" ->
             LET sel == select_list(s.api, Answer(c, 1), Households, c.arg)
             IN  [st |-> switch_list(s.st, sel, Answer(c, 2), remote).st, api |-> sel.api]
      [] c.op = "add" ->
             [st |-> async_add(s.st, catalog, c.arg, TRUE, remote).st, api |-> s.api]
      [] c.op = "clear" ->
             [st |-> async_clear_completed(s.st, catalog, Answer(c, 1), remote).st,
              api |-> s.api]
      [] OTHER -> s

----------------------------------------------------------------------------
(* The claims.  A reconciliation pass that completed is the last change of  *)
(* the map an operation makes: last.pull holds what it pulled and           *)
(* last.merged_into the map it merged the pull into.                        *)

PassRan == last.exc = NoExc /\ last.pull # << >>
PassPre == last.merged_into[1]
Pulled == last.pull[1]

\* The pulled items in merge order (pending, then bought), each with the
\* complete flag of its group.
PulledInOrder ==
    [i \in DOMAIN Pulled.purchase |->
        [name |-> Pulled.purchase[i].name, groceryId |-> Pulled.purchase[i].groceryId,
         bought |-> FALSE]]
    \o [i \in DOMAIN Pulled.bought |->
        [name |-> Pulled.bought[i].name, groceryId |-> Pulled.bought[i].groceryId,
         bought |-> TRUE]]

\* The items as the pass resolved them, in the same order.
ResolvedInOrder == purchase_list \o recent_list

\* C1: whatever add, update and clearCompleted calls have run, no two
\* entries of map_items carry the same local id: neither as the key they
\* are stored under nor as the id of the stored item.
C1_UniqueLocalIds ==
    \A i, j \in DOMAIN map_items :
        i # j => /\ map_items[i].key # map_items[j].key
                 /\ map_items[i].item.id # map_items[j].item.id

\* C1 witness: an add, update or clearCompleted call has ended and the map
\* holds two entries.
C1_Witness ==
    /\ last.op \in {"add", "update", "clear"}
    /\ Len(map_items) >= 2

\* C2: a sync_grosh pass that follows a completed pass over the same remote
\* contents, with nothing in between, leaves the map as the first pass left
\* it (same ids, names, remote ids and complete flags).
C2_SyncIdempotent ==
    (last.op = "sync" /\ PassRan /\ last.in_sync)
        => DictPairs(map_items) = DictPairs(last.pre)

\* C3: once async_clear_completed has ended, exactly the entries that had
\* complete=true before the call are gone from the map, and every entry that
\* had complete=false is still there with its name, remote id and flag.
C3_ClearRemovesExactlyCompleted ==
    last.op = "clear" =>
        \A i \in DOMAIN last.pre :
            LET e == last.pre[i]
            IN  IF e.item.bought
                THEN ~DictHas(map_items, e.key)
                ELSE /\ DictHas(map_items, e.key)
                     /\ DictGet(map_items, e.key).name = e.item.name
                     /\ DictGet(map_items, e.key).groceryId = e.item.groceryId
                     /\ DictGet(map_items, e.key).bought = e.item.bought

\* C4: a reconciliation pass removes no entry: every local id of the map
\* before the pass is in the map after it, and an entry whose id no pulled
\* item resolved to is unchanged, also when the pull does not list it.
C4_SyncNeverRemoves ==
    PassRan =>
        \A i \in DOMAIN PassPre :
            /\ DictHas(map_items, PassPre[i].key)
            /\ (\A k \in DOMAIN ResolvedInOrder : ResolvedInOrder[k].id # PassPre[i].key)
                   => DictGet(map_items, PassPre[i].key) = PassPre[i].item

\* C4 witness: a pass merged a non-empty pull into a map holding an entry
\* that no pulled item resolved to and that the pull does not list.
C4_Witness ==
    /\ PassRan
    /\ PulledInOrder # << >>
    /\ \E i \in DOMAIN PassPre :
           /\ \A k \in DOMAIN ResolvedInOrder : ResolvedInOrder[k].id # PassPre[i].key
           /\ \A k \in DOMAIN PulledInOrder :
                  PulledInOrder[k].name # PassPre[i].item.name

\* C5: after a pass, for every pulled item, the entry under the
\* item's resolved id has that item's name and remote id, and the complete
\* flag of the item's group.
C5_EveryPulledItemStored ==
    PassRan =>
        \A k \in DOMAIN PulledInOrder :
            LET id == grosh_to_shopping(PulledInOrder[k], PassPre, PulledInOrder[k].bought).id
            IN  /\ DictHas(map_items, id)
                /\ DictGet(map_items, id).name = PulledInOrder[k].name
                /\ DictGet(map_items, id).groceryId = PulledInOrder[k].groceryId
                /\ DictGet(map_items, id).bought = PulledInOrder[k].bought

\* C6: for a name without " [" and any remote id, splitting the display
\* name to_ha builds gives back exactly the name and the remote id.
C6_RoundTrip ==
    (probe.parsed # << >> /\ ~HasMarker(probe.name)) =>
        /\ probe.parsed[1].name = probe.name
        /\ probe.parsed[1].groceryId = probe.groceryId

\* C6 witness: a rendering was read back whose name has no " [" and whose
\* remote id itself contains the marker or a closing bracket.
C6_Witness ==
    /\ probe.parsed # << >>
    /\ ~HasMarker(probe.name)
    /\ probe.name # << >>
    /\ (HasMarker(probe.groceryId) \/ \E i \in DOMAIN probe.groceryId : probe.groceryId[i] = "]")

\* The entries of map m that hold the name and remote id of the pulled item r.
Matches(m, r) ==
    {i \in DOMAIN m : m[i].item.name = r.name /\ m[i].item.groceryId = r.groceryId}

\* C7 (first half), of the pass that ran last: every pulled item was
\* resolved to the id of an entry holding its name and remote id when the
\* map had one, and to its plain name otherwise.
C7_ResolvedAsClaimed ==
    \A k \in DOMAIN PulledInOrder :
        IF Matches(PassPre, PulledInOrder[k]) # {}
        THEN \E i \in Matches(PassPre, PulledInOrder[k]) :
                 ResolvedInOrder[k].id = PassPre[i].key
        ELSE ResolvedInOrder[k].id = PulledInOrder[k].name

\* C7: the resolver returns the id of a matching entry, else the plain name,
\* and an item that matched an entry in one pass resolves to the same local
\* id in the next pass over the same remote contents.
C7_ResolverKeepsIdentity ==
    [][ PassRan' =>
          /\ C7_ResolvedAsClaimed'
          /\ (PassRan /\ last.pull = <<remote>> /\ last'.op = "sync") =>
                 \A k \in DOMAIN PulledInOrder :
                     Matches(PassPre, PulledInOrder[k]) # {} =>
                         ResolvedInOrder'[k].id = ResolvedInOrder[k].id ]_vars

\* C8: a pass into an empty map leaves one entry per pulled
\* item, keyed by the item's plain name, with the complete flag of its group.
C8_OneEntryPerPulledItem ==
    (PassRan /\ PassPre = EmptyDict) =>
        /\ Len(map_items) = Len(PulledInOrder)
        /\ \A k \in DOMAIN PulledInOrder :
               /\ DictHas(map_items, PulledInOrder[k].name)
               /\ DictGet(map_items, PulledInOrder[k].name) =
                      ShoppingItem(PulledInOrder[k].name, PulledInOrder[k].name,
                                   PulledInOrder[k].groceryId, PulledInOrder[k].bought)

\* C9: add(name) for a non-empty name, on an empty map with nothing
\* persisted and nothing listed remotely, returns with the map holding
\* exactly one entry, named name and not complete, and with exactly one
\* purchase request issued for the catalog name of name.
C9_AddStoresAndPushes ==
    (/\ last.op = "add"
     /\ last.arg[1] # << >>
     /\ last.pre = EmptyDict
     /\ persisted = << >>
     /\ remote = [purchase |-> << >>, bought |-> << >>]) =>
        /\ last.exc = NoExc
        /\ Len(map_items) = 1
        /\ map_items[1].item.name = SplitDisplayName(last.arg[1]).name
        /\ map_items[1].item.bought = FALSE
        /\ Cardinality({i \in DOMAIN calls : calls[i].method = "PUT"}) = 1
        /\ \A i \in DOMAIN calls :
               calls[i].method = "PUT" =>
                   /\ calls[i].endpoint = "bought"
                   /\ calls[i].arg = convert_name(catalog, SplitDisplayName(last.arg[1]).name)

\* C10: update(id, {bought: true}) on an entry that came from a remote
\* pending item issues a mark-bought request, then runs a pass, and
\* returns with the entry complete.
C10_UpdateMarksBought ==
    (/\ last.op = "update"
     /\ last.arg[2] \in {<<[key |-> "bought", value |-> TRUE]>>,
                         <<[key |-> "complete", value |-> TRUE]>>}
     /\ DictHas(last.pre, last.arg[1])
     /\ \E i \in DOMAIN remote.purchase :
            /\ remote.purchase[i].name = DictGet(last.pre, last.arg[1]).name
            /\ remote.purchase[i].groceryId = DictGet(last.pre, last.arg[1]).groceryId) =>
        /\ last.exc = NoExc
        /\ Len(calls) = 2
        /\ calls[1].method = "PUT"
        /\ calls[2] = [method |-> "GET", endpoint |-> "current", arg |-> << >>]
        /\ DictHas(map_items, last.arg[1])
        /\ DictGet(map_items, last.arg[1]).bought = TRUE


\* C11: when switch_list has completed, the reconciliation pass started from
\* an empty map, so every entry of the map is one the pass resolved from the
\* pull of the selected list: an entry the map held before the call is there
\* only if a pulled item resolved to its id again.
C11_SwitchDiscardsPriorEntries ==
    (last.op = "switch_list" /\ last.exc = NoExc) =>
        /\ PassRan
        /\ PassPre = EmptyDict
        /\ \A i \in DOMAIN map_items :
               \E k \in DOMAIN ResolvedInOrder :
                   /\ ResolvedInOrder[k].id = map_items[i].key
                   /\ ResolvedInOrder[k].name = map_items[i].item.name
        /\ \A i \in DOMAIN last.pre :
               DictHas(map_items, last.pre[i].key) =>
                   \E k \in DOMAIN ResolvedInOrder :
                       ResolvedInOrder[k].id = last.pre[i].key

\* C11 witness: switch_list completed on a non-empty map, an entry the map
\* held before is gone and the pass stored an entry.
C11_Witness ==
    /\ last.op = "switch_list"
    /\ last.exc = NoExc
    /\ map_items # EmptyDict
    /\ \E i \in DOMAIN last.pre : ~DictHas(map_items, last.pre[i].key)

\* C12: when add, update, clearCompleted or switch_list has completed, the
\* persisted blob equals the item collection in memory.
C12_PersistedAfterEveryMutation ==
    (last.op \in {"add", "update", "clear", "switch_list"} /\ last.exc = NoExc) =>
        persisted = items

\* C13: add with an empty name fails with a validation error, issues no
\* request, and leaves the map, the item collection and the blob unchanged.
C13_EmptyNameRejected ==
    [][ (last'.op = "add" /\ last'.arg = << << >> >>) =>
            /\ last'.exc \in {"Invalid", "ValueError"}
            /\ calls' = << >>
            /\ UNCHANGED <<map_items, items, persisted>> ]_vars

\* C14: update with an id that is not a key of the map ends with KeyError,
\* which the HTTP view answers with NOT_FOUND and the websocket handler with
\* the error item_not_found; no request is issued and the map, the item
\* collection and the blob are unchanged.
C14_UpdateUnknownIdNotFound ==
    [][ (last'.op = "update" /\ ~DictHas(map_items, last'.arg[1])) =>
            /\ last'.exc = "KeyError"
            /\ UpdateShoppingListItemView_post(last'.exc) =
                   [raised |-> NoExc, status |-> "NOT_FOUND", body |-> "Item not found"]
            /\ websocket_handle_update(last'.exc) =
                   [raised |-> NoExc, message |-> "error", code |-> "item_not_found"]
            /\ calls' = << >>
            /\ UNCHANGED <<map_items, items, persisted>> ]_vars

\* C14 witness: an update with an id the non-empty map does not hold has
\* ended.
C14_Witness ==
    /\ last.op = "update"
    /\ last.exc = "KeyError"
    /\ map_items # EmptyDict
    /\ ~DictHas(map_items, last.arg[1])
    /\ map_items = last.pre


\* The operation that ran last was an add of a non-empty name.
AddCalled == last.op = "add" /\ last.arg[1] # << >>

\* The operation that ran last was an update of an entry of the map with a
\* patch the schema accepts.
UpdateCalled ==
    /\ last.op = "update"
    /\ DictHas(last.pre, last.arg[1])
    /\ last.arg[2] # << >>
    /\ ITEM_UPDATE_SCHEMA_accepts(last.arg[2])

\* The operation that ran last was a clearCompleted on a map with a
\* complete entry.
ClearCalled == last.op = "clear" /\ \E i \in DOMAIN last.pre : last.pre[i].item.bought

\* The push of the operation that ran last raised.
PushFailed ==
    \/ /\ last.op = "add"
       /\ LET sp == SplitDisplayName(last.arg[1])
          IN  GroshData_purchase_item(
                  catalog, ShoppingItem(sp.name, sp.name, sp.groceryId, FALSE)).exc # NoExc
    \/ /\ last.op = "clear"
       /\ \E i \in DOMAIN last.pre :
              /\ last.pre[i].item.bought
              /\ GroshData_remove_item(catalog, last.pre[i].item).exc # NoExc

\* The steps of the operation that ran last, changes of self.items left out.
StepsOnMap == SelectSeq(last.steps, LAMBDA x : x # "items")

\* C15: when the push of an add or of a clearCompleted fails, the operation
\* still returns, having run the reconciliation pass and saved the items.
C15_PushFailureNotSurfaced ==
    PushFailed =>
        /\ last.exc = NoExc
        /\ \E i, j \in DOMAIN last.steps :
               i < j /\ last.steps[i] = "sync" /\ last.steps[j] = "save"
        /\ persisted = items

\* C16: an add, update or clearCompleted that has something to do applies
\* its change to the map, then pushes, then runs a pass, then saves, each
\* exactly once and in this order.
C16_FourStepsInOrder ==
    (AddCalled \/ UpdateCalled \/ ClearCalled) =>
        StepsOnMap = <<"map", "push", "sync", "save">>

\* C17: an update that renames an entry pushes the removal of the old item,
\* then renames locally, then pushes the new item; when it has ended the old
\* id is no key of the map and the entry is stored under the new name.
C17_RenameRemovesThenRecreates ==
    (/\ UpdateCalled
     /\ last.arg[2][1].key = "name"
     /\ SplitDisplayName(last.arg[2][1].value).name # last.arg[1]) =>
        LET new == SplitDisplayName(last.arg[2][1].value).name
        IN  /\ last.exc = NoExc
            /\ SubSeq(StepsOnMap, 1, 3) = <<"push", "map", "push">>
            /\ ~DictHas(map_items, last.arg[1])
            /\ DictHas(map_items, new)
            /\ DictGet(map_items, new).name = new

\* C18: when a pass resolved an item of the pending group and an item of
\* the bought group to the same local id, the entry under that id after the
\* pass is the last item of the bought group resolved to it (complete=true).
C18_BoughtGroupWins ==
    PassRan =>
        \A k \in DOMAIN purchase_list, m \in DOMAIN recent_list :
            (/\ purchase_list[k].id = recent_list[m].id
             /\ \A j \in DOMAIN recent_list :
                    recent_list[j].id = recent_list[m].id => j <= m) =>
                /\ DictGet(map_items, recent_list[m].id) = recent_list[m]
                /\ DictGet(map_items, recent_list[m].id).bought = TRUE

\* C18 witness: a pass resolved a pending and a bought item of different
\* remote ids to one local id that the map held as not complete before.
C18_Witness ==
    /\ PassRan
    /\ \E k \in DOMAIN purchase_list, m \in DOMAIN recent_list :
           /\ purchase_list[k].id = recent_list[m].id
           /\ purchase_list[k].groceryId # recent_list[m].groceryId
           /\ DictHas(PassPre, recent_list[m].id)
           /\ ~DictGet(PassPre, recent_list[m].id).bought
           /\ DictGet(map_items, recent_list[m].id).bought

\* C19: whenever no operation is in progress, also after one that failed,
\* items is the rendering of the map: one record per entry, in map order.
C19_ItemsRenderTheMap ==
    phase = "ready" => items = RenderItems(map_items)

\* C20: add and update return a record, and it is the rendering of the
\* entry the map holds under the returned id after the operation's pass.
C20_ReturnsStoredRecord ==
    (AddCalled \/ UpdateCalled) =>
        /\ last.exc = NoExc
        /\ Len(last.ret) = 1
        /\ DictHas(map_items, last.ret[1].id)
        /\ last.ret[1] = to_ha(DictGet(map_items, last.ret[1].id))


\* C21, as claimed: only clearCompleted deletes entries: a step after which
\* a key of the map is gone is a clearCompleted.
C21_OnlyClearDeletes ==
    [][ (\E i \in DOMAIN map_items : ~DictHas(map_items', map_items[i].key)) =>
            last'.op = "clear" ]_vars

\* C21, amended: add, update, bought_item and the reconciliation pass never
\* make an entry other than the one being renamed disappear; a step after
\* which a key of the map is gone is a clearCompleted or a switch_list, which
\* empties the map.
C21_OnlyClearAndSwitchDelete ==
    [][ /\ (\E i \in DOMAIN map_items : ~DictHas(map_items', map_items[i].key)) =>
               last'.op \in {"clear", "switch_list"}
        /\ last'.op \in {"add", "update", "bought_item", "sync"} =>
               \A i \in DOMAIN map_items :
                   \/ DictHas(map_items', map_items[i].key)
                   \/ /\ last'.op = "update"
                      /\ last'.arg[2][1].key = "name"
                      /\ last'.arg[1] = map_items[i].key ]_vars

\* C21 witness: an update has ended that renames an entry to a name that is
\* the id of another entry, and both entries are still in the map.
C21_Witness ==
    /\ last.op = "update"
    /\ last.arg[2][1].key = "name"
    /\ DictHas(last.pre, last.arg[1])
    /\ last.arg[2][1].value # last.arg[1]
    /\ DictHas(last.pre, last.arg[2][1].value)
    /\ DictHas(map_items, last.arg[1])
    /\ DictHas(map_items, last.arg[2][1].value)

\* A pass has completed right after an operation whose push raised.
PassAfterFailedPush == last.after_failed_push /\ last.op = "sync" /\ last.exc = NoExc

\* C22, as claimed: after a failed push and a pass that then succeeds, the
\* map holds an entry for a (name, remote id) exactly when the remote list
\* holds that item, with the same complete state.
C22_PassRealigns ==
    PassAfterFailedPush =>
        /\ \A i \in DOMAIN map_items :
               \E k \in DOMAIN PulledInOrder :
                   /\ PulledInOrder[k].name = map_items[i].item.name
                   /\ PulledInOrder[k].groceryId = map_items[i].item.groceryId
                   /\ PulledInOrder[k].bought = map_items[i].item.bought
        /\ \A k \in DOMAIN PulledInOrder :
               \E i \in DOMAIN map_items :
                   /\ PulledInOrder[k].name = map_items[i].item.name
                   /\ PulledInOrder[k].groceryId = map_items[i].item.groceryId
                   /\ PulledInOrder[k].bought = map_items[i].item.bought

\* C22, amended: after a failed push and a pass that then succeeds, every
\* entry whose id a pulled item resolved to holds the name, remote id and
\* complete state of a pulled item resolved to it, whatever the failed
\* operation left there; the entries no pulled item resolved to are kept as
\* they were, and items is the rendering of the map.
C22_PassOverwritesListedEntries ==
    PassAfterFailedPush =>
        /\ items = RenderItems(map_items)
        /\ DictKeys(map_items) =
               DictKeys(last.pre) \cup {ResolvedInOrder[k].id : k \in DOMAIN ResolvedInOrder}
        /\ \A i \in DOMAIN map_items :
               IF \E k \in DOMAIN ResolvedInOrder : ResolvedInOrder[k].id = map_items[i].key
               THEN \E k \in DOMAIN ResolvedInOrder : ResolvedInOrder[k] = map_items[i].item
               ELSE DictGet(last.pre, map_items[i].key) = map_items[i].item

\* C22 witness: the pass after a failed push changed the complete flag of an
\* entry and kept an entry the remote list does not hold.
C22_Witness ==
    /\ PassAfterFailedPush
    /\ \E i \in DOMAIN last.pre :
           DictGet(map_items, last.pre[i].key).bought # last.pre[i].item.bought
    /\ \E i \in DOMAIN map_items :
           \A k \in DOMAIN ResolvedInOrder : ResolvedInOrder[k].id # map_items[i].key


\* C27: the bought_item service, called with the name of a record of items
\* whose entry the map holds, returns with that entry complete, under the
\* same id and with the same name.
C27_BoughtItemServiceCompletes ==
    [][ (/\ last'.op = "bought_item"
         /\ \E i \in DOMAIN items :
                items[i].name = last'.arg[1] /\ DictHas(map_items, items[i].id)) =>
            LET hits == {i \in DOMAIN items : items[i].name = last'.arg[1]}
                id   == items[CHOOSE i \in hits : \A j \in hits : i <= j].id
            IN  /\ last'.exc = NoExc
                /\ DictHas(map_items', id)
                /\ DictGet(map_items', id).bought = TRUE
                /\ DictGet(map_items', id).id = id
                /\ DictGet(map_items', id).name = DictGet(map_items, id).name ]_vars

\* C29: after a pass the map holds, for every pulled item, an entry with the
\* item's name and remote id, also when pulled items share a name.
C29_NoPulledItemLost ==
    PassRan =>
        \A k \in DOMAIN PulledInOrder :
            \E i \in DOMAIN map_items :
                /\ map_items[i].item.name = PulledInOrder[k].name
                /\ map_items[i].item.groceryId = PulledInOrder[k].groceryId

\* C30: a switch_list that fails because no list has the name leaves the
\* map and the item collection as they were.
C30_FailedSwitchChangesNothing ==
    [][ (last'.op = "switch_list" /\ last'.exc = "ValueError") =>
            UNCHANGED <<map_items, items>> ]_vars


\* C23: async_load puts the saved records into the map through
\* ha_to_shopping_item and then runs exactly one pass; for a map whose names
\* hold no " [", saved and loaded back against an empty remote list, the
\* loaded map has the same ids, names, remote ids and complete flags.
C23_SaveLoadRoundTrip ==
    (last.op = "load" /\ last.exc = NoExc) =>
        /\ last.steps = <<"items", "map", "sync">>
        /\ calls = <<[method |-> "GET", endpoint |-> "current", arg |-> << >>]>>
        /\ PassPre = LoadRecords(EmptyDict, persisted)
        /\ (/\ remote = [purchase |-> << >>, bought |-> << >>]
            /\ \A i \in DOMAIN last.pre : ~HasMarker(last.pre[i].item.name)) =>
               map_items = last.pre

\* C23 witness: a map of two entries without " [" in their names, one with
\* a remote id and one complete, came back from a load against an empty
\* remote list.
C23_Witness ==
    /\ last.op = "load"
    /\ last.exc = NoExc
    /\ remote = [purchase |-> << >>, bought |-> << >>]
    /\ Len(last.pre) = 2
    /\ \A i \in DOMAIN last.pre : ~HasMarker(last.pre[i].item.name)
    /\ \E i \in DOMAIN last.pre : last.pre[i].item.groceryId # << >>
    /\ \E i \in DOMAIN last.pre : last.pre[i].item.bought
    /\ \E i \in DOMAIN last.pre : last.pre[i].item.name # last.pre[i].key
    /\ map_items = last.pre

\* The lists of the answer that carry the name asked for.
ListHits == {i \in DOMAIN probe.found : probe.found[i].name = probe.name}

\* C24: select_list makes the first fetched list with exactly the name the
\* active one; when no fetched list has the name it raises ValueError and
\* the active list id and the selected name keep their values.
C24_SelectFirstMatchOrFail ==
    (probe.op = "select_list" /\ probe.answered) =>
        IF ListHits # {}
        THEN /\ probe.exc = NoExc
             /\ \E i \in ListHits :
                    /\ \A j \in ListHits : i <= j
                    /\ api.GroshListID = probe.found[i].id
                    /\ api.selected_list = probe.name
        ELSE /\ probe.exc = "ValueError"
             /\ api = probe.before[1]

\* C24 witness: of two lists with the name and different ids the first was
\* selected, replacing another selection.
C24_Witness ==
    /\ probe.op = "select_list"
    /\ probe.exc = NoExc
    /\ Len(probe.found) = 2
    /\ probe.found[1].name = probe.found[2].name
    /\ probe.found[1].id # probe.found[2].id
    /\ probe.before[1].GroshListID \notin {"", api.GroshListID}

\* C25: check_response maps 200 and 204 to success, 401 to the
\* authentication error, 404 to a not-found error that is not the generic
\* remote error, and any other status to the remote error (Exception)
\* carrying the provider's error message for a JSON error body and the raw
\* body otherwise.
C25_ResponseClassified ==
    probe.op = "check_response" =>
        CASE probe.response.status \in {200, 204} -> probe.exc = NoExc
          [] probe.response.status = 401 -> probe.exc = "AuthentificationFailed"
          [] probe.response.status = 404 ->
                 probe.exc \notin {NoExc, "AuthentificationFailed", "Exception"}
          [] OTHER ->
                 /\ probe.exc = "Exception"
                 /\ probe.carries = IF probe.response.body = "json_error" THEN "error"
                                    ELSE probe.response.body

\* C26: login raises the authentication error only for a 401 response, a
\* malformed URL or a network failure gives another error, and the session
\* is marked logged-in only when login succeeded.
C26_LoginErrors ==
    probe.op = "login" =>
        /\ probe.exc = "AuthentificationFailed" =>
               (probe.transport = "ok" /\ probe.response.status = 401)
        /\ probe.transport # "ok" =>
               probe.exc \notin {NoExc, "AuthentificationFailed"}
        /\ (api.logged /\ ~probe.before[1].logged) => probe.exc = NoExc


\* C28: when two operations that interleaved at their suspension points
\* have both ended, the map and the item collection are what one of the two
\* serial orders of the operations leaves.
C28_InterleavingSerializable ==
    (\A p \in Procs : probe.co[p].pc = "done") =>
        \E first \in Procs : \E second \in Procs \ {first} :
            LET end == RunAlone(probe.co[second],
                                RunAlone(probe.co[first], probe.start[1]))
            IN  /\ map_items = end.st.map_items
                /\ items = end.st.items


\* C31: whenever the operation that ran last issued a fetch of the items or
\* a mutation of an item, a remote list had been selected successfully
\* before: the active list id is not the empty one of the constructor.
C31_NoItemRequestBeforeSelect ==
    (\E i \in DOMAIN calls : calls[i].endpoint \in {"current", "bought"}) =>
        api.GroshListID # ""

====
